---- MODULE Spec2Model ----
(***************************************************************************)
(* Blood-bank inventory allocation: the approve handlers of src/server.js  *)
(* (fulfilment variant: batches become "used", the request "fulfilled")    *)
(* and of src/unnamed/part_000 (reservation variant: batches become        *)
(* "reserved", the request "approved"), with the handlers that share the   *)
(* Inventory and Request collections with them.                            *)
(*                                                                         *)
(* A handler is an async function: between two awaited database            *)
(* operations other handlers may run.  Each approve action below is one    *)
(* database operation together with the synchronous code that follows it   *)
(* up to the next await; `new Date()` arguments are read when the          *)
(* operation executes.  A Mongoose save() of a loaded document writes only *)
(* the fields the handler modified, with the values computed from the      *)
(* handler's copy of the document.  Any awaited write may reject, which    *)
(* takes the handler to its catch block (HTTP 500); reads are taken to     *)
(* succeed.  The Donor and Recipient collections are left out: no approve  *)
(* step reads them.                                                        *)
(***************************************************************************)
EXTENDS Integers, Sequences, FiniteSets, TLC

VARIABLES variant, now, inventory, requests, calls, pre

vars == <<variant, now, inventory, requests, calls, pre>>

\* ------------------------------------------------------------------ bounds
\* Largest units value of an added batch or a created request.
MaxUnits == 2
\* The clock runs over 0..MaxTime; expiry dates of added batches over 1..MaxTime.
MaxTime == 2
\* POST /api/inventory is accepted while fewer than MaxBatches documents exist.
MaxBatches == 2
\* POST of a request is accepted while fewer than MaxRequests documents exist.
MaxRequests == 2
\* Approve invocations per behaviour (each may overlap the others).
MaxCalls == 2

\* ------------------------------------------------------------- the schemas
Variants == {"fulfilment", "reservation"}

\* Two of the eight enum values: enough to tell "same type" from "other type".
BloodTypes == {"A+", "O-"}

InventoryStatuses == {"available", "reserved", "used", "expired"}

RequestStatuses(v) ==
    IF v = "fulfilment"
    THEN {"pending", "fulfilled", "rejected", "cancelled"}
    ELSE {"pending", "approved", "rejected", "fulfilled"}

\* processedDate of a request that was never processed (the field is unset).
NoDate == -1

\* donorId of a batch that comes from no tracked donor (the field is optional).
NoDonor == ""

\* A batch document without a donor reference.
NewInventory(bt, u, e, st) ==
    [bloodType |-> bt, units |-> u, expiryDate |-> e, status |-> st,
     donorId |-> NoDonor]

\* The document b with the donor reference d.
WithDonor(b, d) == [b EXCEPT !.donorId = d]

NewRequest(bt, u) ==
    [bloodType |-> bt, units |-> u, status |-> "pending",
     processedBy |-> "", processedDate |-> NoDate]

\* --------------------------------------------------------- query operators
RECURSIVE SumUnits(_, _)
\* $group: { totalUnits: { $sum: '$units' } } over the documents ids of inv.
SumUnits(inv, ids) ==
    IF ids = {} THEN 0
    ELSE LET i == CHOOSE x \in ids : TRUE
         IN  inv[i].units + SumUnits(inv, ids \ {i})

\* Mutant of MatchAvailable: the filter has no bloodType.
MatchAvailableAnyType(v, b, bt, t) ==
    /\ b.status = "available"
    /\ (v = "fulfilment" => b.expiryDate > t)

\* The filter of the approve handler's aggregate and find: the fulfilment
\* handler adds expiryDate > new Date(), the reservation handler does not.
MatchAvailable(v, b, bt, t) ==
    /\ b.bloodType = bt
    /\ b.status = "available"
    /\ (v = "fulfilment" => b.expiryDate > t)

MatchIds(v, inv, bt, t) ==
    {i \in DOMAIN inv : MatchAvailable(v, inv[i], bt, t)}

\* totalAvailable / availableUnits: 0 when the aggregate returns no group.
TotalAvailable(v, inv, bt, t) == SumUnits(inv, MatchIds(v, inv, bt, t))

\* Mutant of ExpiryOrdered: the sort direction reversed, { expiryDate: -1 }.
ExpiryOrderedDescending(a, b) == a.expiryDate >= b.expiryDate

\* The comparison of .sort({ expiryDate: 1 }).
ExpiryOrdered(a, b) == a.expiryDate <= b.expiryDate

\* Mutant of SortedByExpiry: the query may hand a document more than once.
SortedByExpiryWithRepeats(inv, ids) ==
    {s \in [1..Cardinality(ids) -> ids] :
        \A i, j \in DOMAIN s : i < j => ExpiryOrdered(inv[s[i]], inv[s[j]])}

\* Every order .sort({ expiryDate: 1 }) may return the documents ids in:
\* ascending expiryDate, documents with equal expiryDate in any order.
SortedByExpiry(inv, ids) ==
    {s \in [1..Cardinality(ids) -> ids] :
        /\ \A i, j \in DOMAIN s : i # j => s[i] # s[j]
        /\ \A i, j \in DOMAIN s : i < j => ExpiryOrdered(inv[s[i]], inv[s[j]])}

\* The handler's copy of a loaded inventory document.
LoadItem(inv, i) ==
    [id |-> i, bloodType |-> inv[i].bloodType, units |-> inv[i].units,
     expiryDate |-> inv[i].expiryDate, donorId |-> inv[i].donorId]

\* ----------------------------------------------------------- handler state
NoRequest == [bloodType |-> "", units |-> 0, status |-> ""]
NoRes == [status |-> 0, error |-> ""]
\* pre (history, read by the properties only): the database and the clock as
\* the approve invocations now in flight found them, that is when the first
\* of them started with no other in flight.
NoPre == [inventory |-> <<>>, requests |-> <<>>, now |-> 0]

\* An approve invocation that has not started.
IdleCall ==
    [pc |-> "idle", reqId |-> 0, request |-> NoRequest, unitsToDeduct |-> 0,
     items |-> <<>>, idx |-> 0, res |-> NoRes]

CallIds == 1..MaxCalls

InFlight(c) == calls[c].pc \notin {"idle", "done"}
NoneInFlight == \A c \in CallIds : ~InFlight(c)
NoneStarted == \A c \in CallIds : calls[c].pc = "idle"

\* The status the variant gives a consumed batch and an approved request.
ConsumedStatus(v) == IF v = "fulfilment" THEN "used" ELSE "reserved"
ApprovedStatus(v) == IF v = "fulfilment" THEN "fulfilled" ELSE "approved"
ProcessedBy(v) == IF v = "fulfilment" THEN "System" ELSE "System Admin"

Init ==
    /\ variant \in Variants
    /\ now = 0
    /\ inventory = <<>>
    /\ requests = <<>>
    /\ calls = [c \in CallIds |-> IdleCall]
    /\ pre = NoPre

\* ------------------------------------------------------------ environment
\* The clock advances.
Tick ==
    /\ now < MaxTime
    /\ now' = now + 1
    /\ UNCHANGED <<variant, inventory, requests, calls, pre>>

\* POST /api/inventory: a new available batch, with the donor reference of
\* the body (NoDonor when the body has none).
AddInventory(bt, u, e, d) ==
    /\ inventory' = Append(inventory, WithDonor(NewInventory(bt, u, e, "available"), d))
    /\ UNCHANGED <<variant, now, requests, calls, pre>>

\* POST /api/requests (fulfilment) and the request POST /api/recipients
\* auto-creates (reservation): a new pending request.
CreateRequest(bt, u) ==
    /\ requests' = Append(requests, NewRequest(bt, u))
    /\ UNCHANGED <<variant, now, inventory, calls, pre>>

\* Mutant of SweepStatus: the update also flips an expired batch back.
SweepStatusToggling(b, t) ==
    IF b.expiryDate < t /\ b.status = "available" THEN "expired"
    ELSE IF b.expiryDate < t /\ b.status = "expired" THEN "available"
    ELSE b.status

\* Mutant of SweepStatus: the filter misses the batches that expired last.
SweepStatusOffByOne(b, t) ==
    IF b.expiryDate + 1 < t /\ b.status = "available" THEN "expired" ELSE b.status

\* Mutant of SweepStatus: the filter has no status, every batch past its
\* expiry date becomes expired.
SweepStatusAnyStatus(b, t) ==
    IF b.expiryDate < t THEN "expired" ELSE b.status

\* checkExpiredBlood, run by GET /api/stats, GET /api/inventory and the
\* availability endpoint: updateMany({expiryDate < now, status available}).
SweepStatus(b, t) ==
    IF b.expiryDate < t /\ b.status = "available" THEN "expired" ELSE b.status

\* The collection after updateMany ran at time t.
Swept(inv, t) ==
    [i \in DOMAIN inv |-> [inv[i] EXCEPT !.status = SweepStatus(inv[i], t)]]

\* GET /api/inventory/availability/:bloodType of the reservation server,
\* its answer: checkExpiredBlood, then the sum of units over the batches of
\* the type with status available (0 when the aggregate returns no group).
AvailabilityTotalUnits(inv, bt, t) ==
    SumUnits(Swept(inv, t),
             {i \in DOMAIN inv : Swept(inv, t)[i].bloodType = bt
                                    /\ Swept(inv, t)[i].status = "available"})

checkExpiredBlood ==
    /\ inventory' = Swept(inventory, now)
    /\ inventory' # inventory
    /\ UNCHANGED <<variant, now, requests, calls, pre>>

\* PUT /api/requests/:id of the fulfilment server: findByIdAndUpdate of the
\* status in the body (runValidators: any value of the enum), whatever the
\* status was.
UpdateRequest(id, st) ==
    /\ variant = "fulfilment"
    /\ id \in DOMAIN requests
    /\ st \in RequestStatuses(variant)
    /\ requests' = [requests EXCEPT ![id].status = st]
    /\ UNCHANGED <<variant, now, inventory, calls, pre>>

\* Mutant of RejectRequest: the rejection also releases the reserved batches.
RejectRequestReleasing(id) ==
    /\ variant = "reservation"
    /\ id \in DOMAIN requests
    /\ requests' = [requests EXCEPT ![id].status = "rejected",
                                    ![id].processedBy = "System Admin"]
    /\ inventory' = [i \in DOMAIN inventory |->
          IF inventory[i].status = "reserved"
          THEN [inventory[i] EXCEPT !.status = "available"]
          ELSE inventory[i]]
    /\ UNCHANGED <<variant, now, calls, pre>>

\* PUT /api/requests/:id/reject of the reservation server: no status guard.
RejectRequest(id) ==
    /\ variant = "reservation"
    /\ id \in DOMAIN requests
    /\ requests' = [requests EXCEPT ![id].status = "rejected",
                                    ![id].processedBy = "System Admin"]
    /\ UNCHANGED <<variant, now, inventory, calls, pre>>

\* The sequence s without its element at position k.
RemoveAt(s, k) ==
    [j \in 1..(Len(s) - 1) |-> IF j < k THEN s[j] ELSE s[j + 1]]

\* Mutant of DeleteRequest: the deletion returns the used batches to available.
DeleteRequestRestoring(id) ==
    /\ variant = "fulfilment"
    /\ id \in DOMAIN requests
    /\ requests' = RemoveAt(requests, id)
    /\ inventory' = [i \in DOMAIN inventory |->
          IF inventory[i].status = "used"
          THEN [inventory[i] EXCEPT !.status = "available"]
          ELSE inventory[i]]
    /\ UNCHANGED <<variant, now, calls, pre>>

\* DELETE /api/requests/:id of the fulfilment server: findByIdAndDelete,
\* whatever the request's status.  (Requests are numbered by position: the
\* specifications run this handler only while no approve is in flight.)
DeleteRequest(id) ==
    /\ variant = "fulfilment"
    /\ id \in DOMAIN requests
    /\ requests' = RemoveAt(requests, id)
    /\ UNCHANGED <<variant, now, inventory, calls, pre>>

\* ------------------------------------- PUT /api/requests/:id/approve, by await
\* Invocations are numbered in the order they start.
CanStart(c) ==
    /\ calls[c].pc = "idle"
    /\ \A d \in CallIds : d < c => calls[d].pc # "idle"

\* Mutant of NotFound: the missing request is answered as an unexpected error.
NotFoundAsUnexpected == [status |-> 500, error |-> "Unexpected"]

\* `if (!request) return res.status(404)...`: the not-found answer.
NotFound == [status |-> 404, error |-> "NotFound"]

\* Mutant of StatusGuardRejects: the status guard is missing.
StatusGuardMissing(v, r) == FALSE

\* The status guard after findById: only the fulfilment handler has one.
StatusGuardRejects(v, r) == v = "fulfilment" /\ r.status # "pending"

\* await Request.findById(req.params.id), then the not-found and status guards.
ApproveFindById(c, id) ==
    /\ CanStart(c)
    /\ pre' = IF NoneInFlight
              THEN [inventory |-> inventory, requests |-> requests, now |-> now]
              ELSE pre
    /\ LET started == [IdleCall EXCEPT !.reqId = id]
       IN  calls' = [calls EXCEPT ![c] =
             IF id \notin DOMAIN requests
             THEN [started EXCEPT !.pc = "respond",
                                  !.res = NotFound]
             ELSE LET r == requests[id]
                      loaded == [started EXCEPT !.request =
                                    [bloodType |-> r.bloodType, units |-> r.units,
                                     status |-> r.status]]
                  IN  IF StatusGuardRejects(variant, r)
                      THEN [loaded EXCEPT !.pc = "respond",
                                          !.res = [status |-> 400, error |-> "InvalidState"]]
                      ELSE [loaded EXCEPT !.pc = "aggregate"]]
    /\ UNCHANGED <<variant, now, inventory, requests>>

\* Mutant of StockInsufficient: a request for all the available units is refused.
StockInsufficientOrEqual(totalAvailable, units) == totalAvailable <= units

\* `if (totalAvailable < request.units)`: the insufficient-stock guard.
StockInsufficient(totalAvailable, units) == totalAvailable < units

\* await Inventory.aggregate([...]), then the insufficient-stock guard.
ApproveAggregate(c) ==
    /\ calls[c].pc = "aggregate"
    /\ LET r == calls[c].request
           totalAvailable == TotalAvailable(variant, inventory, r.bloodType, now)
       IN  calls' = [calls EXCEPT ![c] =
             IF StockInsufficient(totalAvailable, r.units)
             THEN [@ EXCEPT !.pc = "respond",
                            !.res = [status |-> 400, error |-> "InsufficientStock"]]
             ELSE [@ EXCEPT !.pc = "find", !.unitsToDeduct = r.units]]
    /\ UNCHANGED <<variant, now, inventory, requests, pre>>

\* await Inventory.find({...}).sort({ expiryDate: 1 }): the handler's copies.
ApproveFind(c) ==
    /\ calls[c].pc = "find"
    /\ \E s \in SortedByExpiry(inventory,
                    MatchIds(variant, inventory, calls[c].request.bloodType, now)) :
          calls' = [calls EXCEPT ![c].pc = "loop", ![c].idx = 1,
                                 ![c].items = [k \in DOMAIN s |-> LoadItem(inventory, s[k])]]
    /\ UNCHANGED <<variant, now, inventory, requests, pre>>

\* Mutant of LoopContinues: the loop has no `if (unitsToDeduct <= 0) break`.
LoopContinuesIgnoringNeed(cl) == cl.idx <= Len(cl.items)

\* The for loop goes on: an item is left and `if (unitsToDeduct <= 0) break` passes.
LoopContinues(cl) == cl.idx <= Len(cl.items) /\ cl.unitsToDeduct > 0

\* Mutant of WholeBatch: a batch of exactly the units needed is split.
WholeBatchStrict(item, unitsToDeduct) == item.units < unitsToDeduct

\* `if (item.units <= unitsToDeduct)`: the whole-batch branch.
WholeBatch(item, unitsToDeduct) == item.units <= unitsToDeduct

\* Mutant of ApproveItemSave: the save also writes the batch's units as 0.
ApproveItemSaveZeroing(c) ==
    /\ calls[c].pc = "loop"
    /\ calls[c].idx <= Len(calls[c].items)
    /\ calls[c].unitsToDeduct > 0
    /\ LET item == calls[c].items[calls[c].idx]
       IN  /\ item.units <= calls[c].unitsToDeduct
           /\ inventory' = [inventory EXCEPT ![item.id].status = ConsumedStatus(variant),
                                             ![item.id].units = 0]
           /\ calls' = [calls EXCEPT ![c].unitsToDeduct = @ - item.units,
                                     ![c].idx = @ + 1]
    /\ UNCHANGED <<variant, now, requests, pre>>

\* Whole-batch branch: item.status = 'used' | 'reserved'; await item.save().
ApproveItemSave(c) ==
    /\ calls[c].pc = "loop"
    /\ LoopContinues(calls[c])
    /\ LET item == calls[c].items[calls[c].idx]
       IN  /\ WholeBatch(item, calls[c].unitsToDeduct)
           /\ inventory' = [inventory EXCEPT ![item.id].status = ConsumedStatus(variant)]
           /\ calls' = [calls EXCEPT ![c].unitsToDeduct = @ - item.units,
                                     ![c].idx = @ + 1]
    /\ UNCHANGED <<variant, now, requests, pre>>

\* Mutant of SplitOff: the split-off batch loses the donor reference.
SplitOffWithoutDonor(v, item, unitsToDeduct) ==
    NewInventory(item.bloodType, unitsToDeduct, item.expiryDate, ConsumedStatus(v))

\* `new Inventory({...})` of the split branch: the units still needed, with
\* the item's bloodType, expiryDate and donorId, in the consumed status.
SplitOff(v, item, unitsToDeduct) ==
    WithDonor(NewInventory(item.bloodType, unitsToDeduct, item.expiryDate,
                           ConsumedStatus(v)),
              item.donorId)

\* Split branch, first await: the new consumed batch is saved.
ApproveNewBatchSave(c) ==
    /\ calls[c].pc = "loop"
    /\ LoopContinues(calls[c])
    /\ LET item == calls[c].items[calls[c].idx]
       IN  /\ ~WholeBatch(item, calls[c].unitsToDeduct)
           /\ inventory' = Append(inventory, SplitOff(variant, item, calls[c].unitsToDeduct))
           /\ calls' = [calls EXCEPT ![c].pc = "splitItem"]
    /\ UNCHANGED <<variant, now, requests, pre>>

\* Mutant of RemainingUnits: the original batch is saved without the deduction.
RemainingUnitsUnreduced(item, unitsToDeduct) == item.units

\* `item.units -= unitsToDeduct`, on the handler's copy.
RemainingUnits(item, unitsToDeduct) == item.units - unitsToDeduct

\* Split branch, second await: the original batch keeps the rest.
ApproveSplitItemSave(c) ==
    /\ calls[c].pc = "splitItem"
    /\ LET item == calls[c].items[calls[c].idx]
       IN  /\ inventory' = [inventory EXCEPT ![item.id].units =
                                RemainingUnits(item, calls[c].unitsToDeduct)]
           /\ calls' = [calls EXCEPT ![c].pc = "loop", ![c].unitsToDeduct = 0,
                                     ![c].idx = @ + 1]
    /\ UNCHANGED <<variant, now, requests, pre>>

\* After the loop: request.status = 'fulfilled' | 'approved', processedBy,
\* processedDate (fulfilment only); await request.save().  The fulfilment
\* handler then answers 200; the reservation handler has one more awaited
\* write, of the recipient's status.
ApproveRequestSave(c) ==
    /\ calls[c].pc = "loop"
    /\ ~LoopContinues(calls[c])
    /\ requests' = [requests EXCEPT
          ![calls[c].reqId].status = ApprovedStatus(variant),
          ![calls[c].reqId].processedBy = ProcessedBy(variant),
          ![calls[c].reqId].processedDate =
               IF variant = "fulfilment" THEN now ELSE @]
    /\ calls' = [calls EXCEPT ![c] =
          IF variant = "fulfilment"
          THEN [@ EXCEPT !.pc = "respond", !.res = [status |-> 200, error |-> ""]]
          ELSE [@ EXCEPT !.pc = "recipient"]]
    /\ UNCHANGED <<variant, now, inventory, pre>>

\* Reservation handler: await Recipient.findByIdAndUpdate(...), then the 200
\* answer (the Recipient collection itself is not part of the state).
ApproveRecipientUpdate(c) ==
    /\ calls[c].pc = "recipient"
    /\ calls' = [calls EXCEPT ![c].pc = "respond",
                              ![c].res = [status |-> 200, error |-> ""]]
    /\ UNCHANGED <<variant, now, inventory, requests, pre>>

\* The awaited write (of a batch, of the split-off batch, of the request, of
\* the recipient) rejects: the catch block answers 500.  Nothing is undone.
ApproveSaveThrows(c) ==
    /\ calls[c].pc \in {"loop", "splitItem", "recipient"}
    /\ calls' = [calls EXCEPT ![c].pc = "respond",
                              ![c].res = [status |-> 500, error |-> "Unexpected"]]
    /\ UNCHANGED <<variant, now, inventory, requests, pre>>

\* res.status(...).json(...): the handler ends, its locals are gone.
ApproveRespond(c) ==
    /\ calls[c].pc = "respond"
    /\ calls' = [calls EXCEPT ![c] = [IdleCall EXCEPT !.pc = "done"]]
    /\ pre' = IF \A d \in CallIds \ {c} : ~InFlight(d) THEN NoPre ELSE pre
    /\ UNCHANGED <<variant, now, inventory, requests>>

\* ---------------------------------------------------------- specifications
\* The donor of an input batch: batches of more than one unit come from the
\* tracked donor "D1", single units from no tracked donor.
InputDonor(u) == IF u > 1 THEN "D1" ELSE NoDonor

\* The inputs of POST /api/inventory: every units and expiry value for the
\* type the requests are about, one batch shape for the other type.
BatchInputs ==
    {<<"A+", u, e, InputDonor(u)>> : u \in 1..MaxUnits, e \in 1..MaxTime}
        \cup {<<"O-", 1, MaxTime, NoDonor>>}

\* The inputs of a request's creation.
RequestInputs == {<<"A+", u>> : u \in 1..MaxUnits} \cup {<<"O-", 1>>}

\* Donation intake and request submission, while the collections are small.
Intake ==
    \/ /\ Len(inventory) < MaxBatches
       /\ \E b \in BatchInputs : AddInventory(b[1], b[2], b[3], b[4])
    \/ /\ Len(requests) < MaxRequests
       /\ \E r \in RequestInputs : CreateRequest(r[1], r[2])

\* The operator's status changes.
Operator ==
    \/ \E id \in 1..MaxRequests, st \in RequestStatuses(variant) : UpdateRequest(id, st)
    \/ \E id \in 1..MaxRequests : RejectRequest(id)

ApproveStart == \E c \in CallIds, id \in 1..MaxRequests : ApproveFindById(c, id)

\* The awaited operation the invocation c is waiting for completes (it
\* resolves or rejects), and the handler runs up to its next await.
CallStep(c) ==
    \/ ApproveAggregate(c)
    \/ ApproveFind(c)
    \/ ApproveItemSave(c)
    \/ ApproveNewBatchSave(c)
    \/ ApproveSplitItemSave(c)
    \/ ApproveRequestSave(c)
    \/ ApproveRecipientUpdate(c)
    \/ ApproveSaveThrows(c)
    \/ ApproveRespond(c)

ApproveStep == \E c \in CallIds : CallStep(c)

\* Every interleaving of the handlers' awaited steps.  The properties are
\* checked under the two specifications below it, whose behaviours are
\* behaviours of this one.
Next ==
    \/ Tick
    \/ Intake
    \/ checkExpiredBlood
    \/ Operator
    \/ ApproveStart
    \/ ApproveStep

Spec == Init /\ [][Next]_vars

\* One handler at a time: a request is served only when no approve is in
\* flight (the clock still advances during an approve).
NextSeq ==
    \/ Tick
    \/ NoneInFlight /\ Intake
    \/ NoneInFlight /\ checkExpiredBlood
    \/ NoneInFlight /\ Operator
    \/ NoneInFlight /\ ApproveStart
    \/ ApproveStep

SpecSeq == Init /\ [][NextSeq]_vars

\* One handler at a time, the deletion of requests among them.
NextDelete ==
    \/ NextSeq
    \/ NoneInFlight /\ \E id \in 1..MaxRequests : DeleteRequest(id)

SpecDelete == Init /\ [][NextDelete]_vars

\* Concurrent approve invocations on a database no other handler touches
\* once the first of them has started.
NextRace ==
    \/ Tick
    \/ NoneStarted /\ Intake
    \/ ApproveStart
    \/ ApproveStep

SpecRace == Init /\ [][NextRace]_vars

\* Concurrent approve invocations for one blood type, at one instant, on a
\* database that nothing else writes once the first of them has started,
\* with every awaited operation completing eventually: the event loop runs
\* the continuation of each settled promise.
NextPair ==
    \/ /\ NoneStarted
       /\ Len(inventory) < MaxBatches
       /\ \E b \in BatchInputs : b[1] = "A+" /\ AddInventory(b[1], b[2], b[3], b[4])
    \/ /\ NoneStarted
       /\ Len(requests) < MaxRequests
       /\ \E r \in RequestInputs : r[1] = "A+" /\ CreateRequest(r[1], r[2])
    \/ ApproveStart
    \/ ApproveStep

FairPair == Init /\ [][NextPair]_vars /\ \A c \in CallIds : WF_vars(CallStep(c))

\* Concurrent approve invocations with the expiry sweep running between any
\* two of their steps.
NextMixed ==
    \/ Tick
    \/ NoneStarted /\ Intake
    \/ checkExpiredBlood
    \/ ApproveStart
    \/ ApproveStep

SpecMixed == Init /\ [][NextMixed]_vars

\* A request submitted to an empty inventory, approved a first time before
\* any donation and approved again after donations: requests are created
\* before the first approve, batches are added after it has answered, and
\* every approve is of the first request.
NextRetry ==
    \/ Tick
    \/ /\ NoneStarted
       /\ Len(requests) < MaxRequests
       /\ \E r \in RequestInputs : CreateRequest(r[1], r[2])
    \/ /\ calls[1].pc = "done"
       /\ NoneInFlight
       /\ Len(inventory) < MaxBatches
       /\ \E b \in BatchInputs : AddInventory(b[1], b[2], b[3], b[4])
    \/ NoneInFlight /\ \E c \in CallIds : ApproveFindById(c, 1)
    \/ ApproveStep

SpecRetry == Init /\ [][NextRetry]_vars

\* The scenario of the specification's testable properties, on the
\* fulfilment server: two available A+ batches, B1 of 3 units expiring in 5
\* days and B2 of 4 units expiring in 10 days, and one pending request for 5
\* A+ units (the clock counts days).
ScenarioInventory ==
    <<NewInventory("A+", 3, 5, "available"), NewInventory("A+", 4, 10, "available")>>

ScenarioRequests == <<NewRequest("A+", 5)>>

InitScenario ==
    /\ variant = "fulfilment"
    /\ now = 0
    /\ inventory = ScenarioInventory
    /\ requests = ScenarioRequests
    /\ calls = [c \in CallIds |-> IdleCall]
    /\ pre = NoPre

\* The awaited steps of the fulfilment handler (it has no recipient write).
ApproveStepFulfilment ==
    \E c \in CallIds :
        \/ ApproveAggregate(c)
        \/ ApproveFind(c)
        \/ ApproveItemSave(c)
        \/ ApproveNewBatchSave(c)
        \/ ApproveSplitItemSave(c)
        \/ ApproveRequestSave(c)
        \/ ApproveSaveThrows(c)
        \/ ApproveRespond(c)

NextScenario ==
    \/ Tick
    \/ /\ NoneInFlight
       /\ Len(requests) < MaxRequests
       /\ \E r \in RequestInputs : CreateRequest(r[1], r[2])
    \/ NoneInFlight /\ ApproveStart
    \/ ApproveStepFulfilment

SpecScenario == InitScenario /\ [][NextScenario]_vars

\* ------------------------------------------------- what the properties read
\* The approve invocation c has done all its database work and is about to
\* answer: its locals and pre are still there.
Answering(c) == calls[c].pc = "respond"

Succeeded(c) == Answering(c) /\ calls[c].res.status = 200

\* Units of blood type bt in any status.
TypeTotal(inv, bt) == SumUnits(inv, {i \in DOMAIN inv : inv[i].bloodType = bt})

\* The batches of bt that are available and not expired at t, and their
\* quantity: availableQuantity of the specification's section 4.1.
EligibleIds(inv, bt, t) ==
    {i \in DOMAIN inv :
        inv[i].bloodType = bt /\ inv[i].status = "available" /\ inv[i].expiryDate > t}

AvailableQuantity(inv, bt, t) == SumUnits(inv, EligibleIds(inv, bt, t))

InsufficientStock == [status |-> 400, error |-> "InsufficientStock"]
InvalidState == [status |-> 400, error |-> "InvalidState"]

\* ------------------------------------------------------------- properties
\* C1. Conservation: when an approve invocation that ran alone answers
\* (whatever it answers), every blood type has as many units over all its
\* batches, in any status, as when the invocation started.  (SpecSeq.)
C1_Conservation ==
    \A c \in CallIds :
        Answering(c) =>
            \A bt \in BloodTypes : TypeTotal(inventory, bt) = TypeTotal(pre.inventory, bt)

\* C2. All-or-nothing on insufficient stock: an approve of a pending request
\* whose units exceed the available, non-expired quantity of its blood type
\* answers the insufficient-stock error and leaves every batch and the
\* request as they were.  (SpecSeq.)
C2_InsufficientStockAllOrNothing ==
    \A c \in CallIds :
        LET id == calls[c].reqId
        IN  (/\ Answering(c)
             /\ id \in DOMAIN pre.requests
             /\ pre.requests[id].status = "pending"
             /\ pre.requests[id].units >
                    AvailableQuantity(pre.inventory, pre.requests[id].bloodType, pre.now))
            => /\ calls[c].res = InsufficientStock
               /\ inventory = pre.inventory
               /\ requests[id].status = "pending"

\* The batches of the call's blood type that were eligible when it started
\* have pairwise distinct expiry dates.
DistinctExpiries(bt) ==
    \A i, j \in EligibleIds(pre.inventory, bt, pre.now) :
        i # j => pre.inventory[i].expiryDate # pre.inventory[j].expiryDate

\* Batch i is no longer as the call found it (status or units).
Touched(i) == inventory[i] # pre.inventory[i]

\* C3. FIFO by expiry: when a successful approve that ran alone answers, and
\* the batches of its blood type T that were eligible at its start have
\* distinct expiry dates, then for every such batch that lost units or changed
\* status, every batch of T that was available at the start, is not expired
\* when the call answers and expires earlier has been consumed entirely: it
\* is no longer available.  (SpecSeq.)
C3_FifoByExpiry ==
    \A c \in CallIds :
        LET bt == calls[c].request.bloodType
        IN  (Succeeded(c) /\ DistinctExpiries(bt)) =>
                \A b \in EligibleIds(pre.inventory, bt, pre.now) :
                    Touched(b) =>
                        \A e \in EligibleIds(pre.inventory, bt, now) :
                            pre.inventory[e].expiryDate < pre.inventory[b].expiryDate
                                => inventory[e].status # "available"

\* C3's case: a successful approve touched a batch and an eligible batch
\* with an earlier expiry date existed.
C3_Witness ==
    \E c \in CallIds :
        LET bt == calls[c].request.bloodType
        IN  /\ Succeeded(c)
            /\ DistinctExpiries(bt)
            /\ \E b \in EligibleIds(pre.inventory, bt, pre.now),
                  e \in EligibleIds(pre.inventory, bt, now) :
                    /\ Touched(b)
                    /\ pre.inventory[e].expiryDate < pre.inventory[b].expiryDate

\* C4. Split correctness: when a successful approve for Q units that ran
\* alone answers, and exactly one batch of its blood type was eligible at its
\* start, with N > Q units and not expired during the call, then exactly one
\* batch was created, consumed and of Q units, the original batch is
\* available with N - Q units, and no other batch changed.  (SpecSeq.)
C4_SplitCorrectness ==
    \A c \in CallIds :
        LET bt == calls[c].request.bloodType
            q == calls[c].request.units
            n == Len(pre.inventory)
        IN  \A b \in DOMAIN pre.inventory :
                (/\ Succeeded(c)
                 /\ EligibleIds(pre.inventory, bt, pre.now) = {b}
                 /\ pre.inventory[b].expiryDate > now
                 /\ pre.inventory[b].units > q)
                => /\ Len(inventory) = n + 1
                   /\ inventory[n + 1] =
                        WithDonor(NewInventory(bt, q, pre.inventory[b].expiryDate,
                                               ConsumedStatus(variant)),
                                  pre.inventory[b].donorId)
                   /\ inventory[b] = [pre.inventory[b] EXCEPT !.units = @ - q]
                   /\ \A i \in DOMAIN pre.inventory \ {b} : inventory[i] = pre.inventory[i]

\* C5. The scenario: an approve of the request for 5 A+ units that found the
\* two batches B1 (3 units) and B2 (4 units) and succeeded leaves B1 used
\* with 3 units, B2 available with 2 units, one new used batch of 2 units
\* and the request fulfilled: 5 units used, 2 available.  (SpecScenario.)
C5_Scenario ==
    \A c \in CallIds :
        (/\ Succeeded(c)
         /\ calls[c].reqId = 1
         /\ pre.inventory = ScenarioInventory
         /\ pre.requests[1].status = "pending")
        => /\ inventory = <<NewInventory("A+", 3, 5, "used"),
                            NewInventory("A+", 2, 10, "available"),
                            NewInventory("A+", 2, 10, "used")>>
           /\ requests[1].status = "fulfilled"
           /\ SumUnits(inventory, {i \in DOMAIN inventory : inventory[i].status = "used"}) = 5
           /\ AvailableQuantity(inventory, "A+", now) = 2

\* C5's case: the approve of the scenario's request succeeded on the
\* scenario's inventory.
C5_Witness ==
    \E c \in CallIds :
        /\ Succeeded(c)
        /\ calls[c].reqId = 1
        /\ pre.inventory = ScenarioInventory
        /\ pre.requests[1].status = "pending"

\* No batch of bt that was available when the calls in flight started has
\* expired since: the baseline holds no stale stock.
CleanBaseline(bt) ==
    \A i \in DOMAIN pre.inventory :
        (pre.inventory[i].bloodType = bt /\ pre.inventory[i].status = "available")
            => pre.inventory[i].expiryDate > now

\* C6. Two approve invocations in flight together, for two different pending
\* requests of one blood type, each satisfiable alone but not both, no write
\* of either failing: exactly one answers success and its request is
\* fulfilled (approved), the other answers the insufficient-stock error and
\* its request stays pending.  (SpecRace, baselines without stale stock.)
C6_ExactlyOneSucceeds ==
    \A c1, c2 \in CallIds :
        LET r1 == calls[c1].reqId
            r2 == calls[c2].reqId
        IN  (/\ c1 # c2
             /\ Answering(c1) /\ Answering(c2)
             /\ calls[c1].res.status # 500 /\ calls[c2].res.status # 500
             /\ r1 # r2
             /\ r1 \in DOMAIN pre.requests /\ r2 \in DOMAIN pre.requests
             /\ pre.requests[r1].status = "pending"
             /\ pre.requests[r2].status = "pending"
             /\ pre.requests[r1].bloodType = pre.requests[r2].bloodType
             /\ CleanBaseline(pre.requests[r1].bloodType)
             /\ LET a == AvailableQuantity(pre.inventory, pre.requests[r1].bloodType, pre.now)
                IN  /\ pre.requests[r1].units <= a
                    /\ pre.requests[r2].units <= a
                    /\ pre.requests[r1].units + pre.requests[r2].units > a)
            => \E w, l \in {c1, c2} :
                   /\ w # l
                   /\ calls[w].res.status = 200
                   /\ requests[calls[w].reqId].status = ApprovedStatus(variant)
                   /\ calls[l].res = InsufficientStock
                   /\ requests[calls[l].reqId].status = "pending"

\* Units of the requests of bt the calls in flight have fulfilled (approved).
FulfilledUnits(bt) ==
    SumUnits(requests,
             {r \in DOMAIN pre.requests :
                 /\ requests[r].bloodType = bt
                 /\ pre.requests[r].status # ApprovedStatus(variant)
                 /\ requests[r].status = ApprovedStatus(variant)})

\* Units of bt in consumed (used, reserved) batches.
ConsumedUnits(inv, bt) ==
    SumUnits(inv, {i \in DOMAIN inv :
                      inv[i].bloodType = bt /\ inv[i].status = ConsumedStatus(variant)})

\* C7. No over-allocation: while approve invocations are in flight, in every
\* interleaving, the units of the requests they have fulfilled and the units
\* they have moved into consumed batches are each at most the quantity of the
\* blood type that was available and not expired when the first of them
\* started.  (SpecRace, baselines without stale stock.)
C7_NoOverAllocation ==
    \A bt \in BloodTypes :
        (pre # NoPre /\ CleanBaseline(bt)) =>
            LET a == AvailableQuantity(pre.inventory, bt, pre.now)
            IN  /\ FulfilledUnits(bt) <= a
                /\ ConsumedUnits(inventory, bt) - ConsumedUnits(pre.inventory, bt) <= a

\* C8. Atomic rollback: when an approve that ran alone answers 500 because a
\* save rejected, the inventory and the requests are as the call found them.
\* (SpecSeq.)
C8_AtomicRollback ==
    \A c \in CallIds :
        (Answering(c) /\ calls[c].res.status = 500)
            => inventory = pre.inventory /\ requests = pre.requests

\* C9. An approve of a request that is not pending answers the invalid-state
\* error and changes neither a request nor a batch, on either server.
\* (SpecSeq.)
C9_NonPendingRefused ==
    \A c \in CallIds :
        LET id == calls[c].reqId
        IN  (/\ Answering(c)
             /\ id \in DOMAIN pre.requests
             /\ pre.requests[id].status # "pending")
            => /\ calls[c].res = InvalidState
               /\ inventory = pre.inventory
               /\ requests = pre.requests

\* C10. Request status is monotone: every step that changes a request's
\* status takes it from pending to fulfilled (approved), rejected or
\* cancelled; a request that is not pending keeps its status.  (SpecSeq.)
C10_StatusMonotone ==
    [][\A r \in DOMAIN requests :
          requests'[r].status # requests[r].status
              => /\ requests[r].status = "pending"
                 /\ requests'[r].status \in {ApprovedStatus(variant), "rejected", "cancelled"}]_vars

\* C11. Full success: when an approve that ran alone answers success and its
\* request is fulfilled (approved), the units it moved from available into
\* consumed batches (whole batches marked, plus the split-off batch) are
\* exactly request.units, even when a batch passes its expiry date between
\* the availability aggregate and the batch query.  (SpecSeq.)
C11_FullSuccess ==
    \A c \in CallIds :
        LET bt == calls[c].request.bloodType
        IN  (Succeeded(c) /\ requests[calls[c].reqId].status = ApprovedStatus(variant))
                => ConsumedUnits(inventory, bt) - ConsumedUnits(pre.inventory, bt)
                      = calls[c].request.units

C13_IdempotentSweep ==
    \A t \in 0..MaxTime :
        Swept(Swept(inventory, t), t) = Swept(inventory, t)

\* C13's case: the sweep has expired a batch, other batches are still
\* available, and a sweep now finds nothing more to expire.
C13_Witness ==
    /\ \E i \in DOMAIN inventory : inventory[i].status = "expired"
    /\ \E j \in DOMAIN inventory : inventory[j].status = "available"
    /\ Swept(inventory, now) = inventory

\* C14. Sweep postcondition: in the inventory the expiry sweep leaves when it
\* runs now, no batch is available with expiryDate < now, and every batch
\* that was available with expiryDate < now is expired.  (SpecSeq.)
C14_SweepPostcondition ==
    LET after == Swept(inventory, now)
    IN  \A i \in DOMAIN inventory :
            /\ ~(after[i].status = "available" /\ after[i].expiryDate < now)
            /\ (inventory[i].status = "available" /\ inventory[i].expiryDate < now)
                  => after[i].status = "expired"

\* C14's case: a sweep has run on a batch past its expiry date, which is now
\* expired, and no available batch past its expiry date is left.
C14_Witness ==
    /\ \E i \in DOMAIN inventory :
          inventory[i].status = "expired" /\ inventory[i].expiryDate < now
    /\ \A j \in DOMAIN inventory :
          ~(inventory[j].status = "available" /\ inventory[j].expiryDate < now)

\* C15. Expired stock is never allocated: while an approve that runs alone is
\* in flight, on either server, it has passed the availability check only if
\* the batches of its blood type that expire after the time of the call
\* cover the request, every batch it has marked or split expires after the
\* time of the call, and so does every batch it has created.  (SpecSeq.)
C15_NoExpiredAllocated ==
    \A c \in CallIds :
        InFlight(c) =>
            /\ calls[c].pc = "find" =>
                  calls[c].request.units
                      <= AvailableQuantity(inventory, calls[c].request.bloodType, pre.now)
            /\ \A i \in DOMAIN pre.inventory :
                  Touched(i) => pre.inventory[i].expiryDate > pre.now
            /\ \A i \in DOMAIN inventory \ DOMAIN pre.inventory :
                  inventory[i].expiryDate > pre.now

\* C16. Availability is the reference sum: in every inventory state and for
\* every blood type T, the quantity the approve handler's availability check
\* computes, and the quantity the availability endpoint (reservation server)
\* answers, are the sum of units over the batches of T that are available
\* and expire in the future.  (SpecSeq.)
C16_AvailabilityIsReferenceSum ==
    \A bt \in BloodTypes :
        /\ TotalAvailable(variant, inventory, bt, now) = AvailableQuantity(inventory, bt, now)
        /\ variant = "reservation" =>
              AvailabilityTotalUnits(inventory, bt, now) = AvailableQuantity(inventory, bt, now)

\* C17. When an approve that ran alone answers success, its request is
\* fulfilled (approved) and carries both processedBy and processedDate;
\* when it answers a failure, the request is as the call found it.
\* (SpecSeq.)
C17_StampedOnSuccessOnly ==
    \A c \in CallIds :
        LET id == calls[c].reqId
        IN  (Answering(c) /\ id \in DOMAIN pre.requests) =>
                IF calls[c].res.status = 200
                THEN /\ requests[id].status = ApprovedStatus(variant)
                     /\ requests[id].processedBy # ""
                     /\ requests[id].processedDate # NoDate
                ELSE requests[id] = pre.requests[id]

\* C18. Rejecting or cancelling a request has no inventory effect: every step
\* of the operator's status update or of the reject handler that leaves a
\* request rejected or cancelled leaves every batch as it was, creating and
\* deleting none.  (SpecSeq.)
C18_RejectLeavesInventory ==
    [][(/\ calls' = calls
        /\ Len(requests') = Len(requests)
        /\ \E r \in DOMAIN requests :
              /\ requests'[r] # requests[r]
              /\ requests'[r].status \in {"rejected", "cancelled"})
       => inventory' = inventory]_vars

\* C18's case: a request has been rejected or cancelled while the inventory
\* holds a batch an approve consumed and a batch still available.
C18_Witness ==
    /\ \E r \in DOMAIN requests : requests[r].status \in {"rejected", "cancelled"}
    /\ \E i \in DOMAIN inventory : inventory[i].status = ConsumedStatus(variant)
    /\ \E j \in DOMAIN inventory : inventory[j].status = "available"

\* C19. Deterministic tie-break: when a successful approve that ran alone
\* answers, of two batches of its blood type that were eligible at its
\* start, are not expired and have the same expiryDate, the one created
\* later lost units or changed status only if the one created first has been
\* consumed entirely.  (SpecSeq; batches are numbered in creation order.)
C19_TieBreakByCreation ==
    \A c \in CallIds :
        LET bt == calls[c].request.bloodType
            eligible == EligibleIds(pre.inventory, bt, pre.now)
                            \cap EligibleIds(pre.inventory, bt, now)
        IN  Succeeded(c) =>
                \A i, j \in eligible :
                    (/\ i < j
                     /\ pre.inventory[i].expiryDate = pre.inventory[j].expiryDate
                     /\ Touched(j))
                    => inventory[i].status # "available"

\* C20. In every reachable state, whatever the interleaving of the approve
\* invocations with each other and with the sweep, every batch with status
\* available has units >= 1.  (SpecMixed.)
C20_AvailableUnitsPositive ==
    \A i \in DOMAIN inventory :
        inventory[i].status = "available" => inventory[i].units >= 1

\* C20's case: a split has reduced a batch that is still available.
C20_Witness ==
    \E i \in DOMAIN pre.inventory :
        /\ inventory[i].status = "available"
        /\ inventory[i].units < pre.inventory[i].units

\* C21. A pending request whose approve failed for insufficient stock can be
\* approved later: when, after that failure, batches have been added and a
\* new approve of the same request runs alone, no write of it rejects, and
\* the unexpired available units of the request's blood type cover it
\* through the call, the approve answers success and the request is
\* fulfilled (approved).  (SpecRetry: the first approve finds an empty
\* inventory.)
C21_ApprovedLater ==
    \A c \in CallIds :
        LET id == calls[c].reqId
        IN  (/\ Answering(c)
             /\ calls[1].pc = "done"
             /\ id \in DOMAIN pre.requests
             /\ pre.requests[id].status = "pending"
             /\ calls[c].res.status # 500
             /\ AvailableQuantity(pre.inventory, pre.requests[id].bloodType, now)
                    >= pre.requests[id].units)
            => /\ calls[c].res.status = 200
               /\ requests[id].status = ApprovedStatus(variant)

\* C21's case: the first approve of the request has failed on the empty
\* inventory, units were added, and the second approve answers success.
C21_Witness ==
    \E c \in CallIds :
        /\ Succeeded(c)
        /\ calls[1].pc = "done"
        /\ calls[c].reqId \in DOMAIN pre.requests
        /\ pre.requests[calls[c].reqId].status = "pending"
        /\ Len(pre.inventory) > 0

FreshCopy(item, i) ==
    /\ inventory[i].units = item.units
    /\ inventory[i].status = "available"

\* C23. A concurrent-write conflict is detected, never written through: every
\* step that changes an existing batch is the save of an approve invocation
\* whose copy of the batch is still what the database holds; an invocation
\* whose copy is stale retries or fails instead of saving it.  (SpecRace.)
C23_ConflictNotWrittenThrough ==
    [][\A i \in DOMAIN inventory :
          inventory'[i] # inventory[i] =>
              \E c \in CallIds :
                  /\ calls[c].pc \in {"loop", "splitItem"}
                  /\ calls[c].idx <= Len(calls[c].items)
                  /\ calls[c].items[calls[c].idx].id = i
                  /\ FreshCopy(calls[c].items[calls[c].idx], i)]_vars

\* C24. Every approve call terminates: with every awaited operation
\* completing eventually, an invocation in flight eventually answers and
\* ends, whatever the other invocation does; and its loop visits each batch
\* the query handed it at most once (the batches are pairwise distinct and
\* the loop index only runs to the end of the list).  (FairPair.)
C24_Terminates ==
    /\ \A c \in CallIds : InFlight(c) ~> (calls[c].pc = "done")
    /\ [](\A c \in CallIds :
            /\ calls[c].idx <= Len(calls[c].items) + 1
            /\ \A j, k \in DOMAIN calls[c].items :
                  j # k => calls[c].items[j].id # calls[c].items[k].id)

\* C24's case: an approve has run its loop over every one of several batches
\* and is answering.
C24_Witness ==
    \E c \in CallIds :
        /\ Answering(c)
        /\ Len(calls[c].items) > 1
        /\ calls[c].idx = Len(calls[c].items) + 1

\* C25. Whole-batch step: every step in which the loop of an approve that
\* runs alone visits a batch of at most the units still needed and saves it
\* gives that batch the consumed status (used, reserved), leaves its units
\* and every other batch as they were, creates no batch, and lowers the
\* remaining need by exactly that batch's units.  (SpecSeq.)
C25_WholeBatchStep ==
    [][\A c \in CallIds :
          (/\ calls[c].pc = "loop"
           /\ calls[c].idx <= Len(calls[c].items)
           /\ calls[c].unitsToDeduct > 0
           /\ calls[c].items[calls[c].idx].units <= calls[c].unitsToDeduct
           /\ calls'[c].pc = "loop"
           /\ calls'[c] # calls[c])
          => LET b == calls[c].items[calls[c].idx].id
             IN  /\ inventory' =
                       [inventory EXCEPT ![b].status = ConsumedStatus(variant)]
                 /\ inventory'[b].units = inventory[b].units
                 /\ Len(inventory') = Len(inventory)
                 /\ calls'[c].unitsToDeduct
                       = calls[c].unitsToDeduct - inventory[b].units]_vars

\* C25's case: the loop has taken its first batch whole and goes on with the
\* need lowered by that batch's units.
C25_Witness ==
    \E c \in CallIds :
        /\ calls[c].pc = "loop"
        /\ calls[c].idx = 2
        /\ inventory[calls[c].items[1].id].status = ConsumedStatus(variant)
        /\ calls[c].unitsToDeduct = calls[c].request.units - calls[c].items[1].units

\* C26. Split step attributes: when an approve that ran alone and created a
\* batch answers success, the created batch has the consumed status and the
\* bloodType, expiryDate and donor reference of a batch it was split from,
\* and that batch is still available with its own bloodType, expiryDate and
\* donor reference, its units reduced by the units of the created batch.
\* (SpecSeq.)
C26_SplitAttributes ==
    \A c \in CallIds :
        (Succeeded(c) /\ Len(inventory) > Len(pre.inventory)) =>
            LET new == inventory[Len(inventory)]
            IN  /\ new.status = ConsumedStatus(variant)
                /\ \E b \in DOMAIN pre.inventory :
                      /\ new.bloodType = pre.inventory[b].bloodType
                      /\ new.expiryDate = pre.inventory[b].expiryDate
                      /\ new.donorId = pre.inventory[b].donorId
                      /\ pre.inventory[b].status = "available"
                      /\ inventory[b] =
                            [pre.inventory[b] EXCEPT !.units = @ - new.units]

\* C26's case: a successful approve split a batch that has a donor reference.
C26_Witness ==
    \E c \in CallIds :
        /\ Succeeded(c)
        /\ Len(inventory) > Len(pre.inventory)
        /\ inventory[Len(inventory)].donorId # NoDonor

\* C27. Early stop: when an approve that ran alone answers with its
\* remaining need at 0, every batch the query handed it after the one where
\* the need reached 0 is as the call found it; and an approve creates at
\* most one batch, so at most one batch is split per call.  (SpecSeq.)
C27_EarlyStop ==
    \A c \in CallIds :
        Answering(c) =>
            /\ Len(inventory) <= Len(pre.inventory) + 1
            /\ calls[c].unitsToDeduct = 0 =>
                  \A k \in DOMAIN calls[c].items :
                      k >= calls[c].idx =>
                          inventory[calls[c].items[k].id]
                              = pre.inventory[calls[c].items[k].id]

\* C27's case: the need reached 0 before the last batch the query handed.
C27_Witness ==
    \E c \in CallIds :
        /\ Answering(c)
        /\ calls[c].res.status = 200
        /\ calls[c].unitsToDeduct = 0
        /\ calls[c].idx <= Len(calls[c].items)

\* C28. Single fulfilment per request: while two approve invocations of the
\* same pending request are in flight together, in every interleaving, the
\* units moved into consumed batches of the request's blood type are at most
\* request.units, and at most one of the two answers success.  (SpecRace.)
C28_SingleFulfilment ==
    \A c1, c2 \in CallIds :
        LET id == calls[c1].reqId
        IN  (/\ c1 # c2
             /\ InFlight(c1) /\ InFlight(c2)
             /\ calls[c2].reqId = id
             /\ id \in DOMAIN pre.requests
             /\ pre.requests[id].status = "pending")
            => /\ ConsumedUnits(inventory, pre.requests[id].bloodType)
                      - ConsumedUnits(pre.inventory, pre.requests[id].bloodType)
                    <= pre.requests[id].units
               /\ ~(Succeeded(c1) /\ Succeeded(c2))

\* C29. A request becomes fulfilled only through a successful approve that
\* deducted request.units: every step that sets a request's status to
\* fulfilled is the request save of an approve invocation of that request
\* whose loop has brought the remaining need to 0.  (SpecSeq.)
C29_FulfilledOnlyByApprove ==
    [][\A r \in DOMAIN requests :
          (requests'[r].status = "fulfilled" /\ requests[r].status # "fulfilled")
              => \E c \in CallIds :
                    /\ calls[c].reqId = r
                    /\ calls[c].pc = "loop"
                    /\ calls[c].unitsToDeduct = 0
                    /\ calls'[c].pc # "loop"]_vars

\* Units in reserved batches, and units of the approved requests.
ReservedUnits ==
    SumUnits(inventory, {i \in DOMAIN inventory : inventory[i].status = "reserved"})

ApprovedUnits ==
    SumUnits(requests, {r \in DOMAIN requests : requests[r].status = "approved"})

\* C30. Reservation ledger balance: on the reservation server, between the
\* operations of any sequence of add-inventory, approve and reject run one
\* at a time, the units in reserved batches equal the units of the approved
\* requests.  (SpecSeq.)
C30_ReservationBalance ==
    (variant = "reservation" /\ NoneInFlight) => ReservedUnits = ApprovedUnits

\* C31. Blood-type isolation: when an approve of a request of blood type T
\* that ran alone answers, successfully or not, every batch of another blood
\* type is as the call found it, every batch it created is of type T, and
\* every other request is as the call found it.  (SpecSeq.)
C31_BloodTypeIsolation ==
    \A c \in CallIds :
        LET id == calls[c].reqId
        IN  (Answering(c) /\ id \in DOMAIN pre.requests) =>
                /\ \A i \in DOMAIN pre.inventory :
                      pre.inventory[i].bloodType # pre.requests[id].bloodType
                          => inventory[i] = pre.inventory[i]
                /\ \A i \in DOMAIN inventory \ DOMAIN pre.inventory :
                      inventory[i].bloodType = pre.requests[id].bloodType
                /\ \A r \in DOMAIN pre.requests \ {id} :
                      requests[r] = pre.requests[r]

\* C31's case: a successful approve ran on a database that holds an
\* available batch of another blood type and another pending request.
C31_Witness ==
    \E c \in CallIds :
        /\ Succeeded(c)
        /\ calls[c].reqId \in DOMAIN pre.requests
        /\ \E i \in DOMAIN pre.inventory :
              /\ pre.inventory[i].bloodType # calls[c].request.bloodType
              /\ pre.inventory[i].status = "available"
              /\ pre.inventory[i].expiryDate > now
        /\ \E r \in DOMAIN pre.requests :
              r # calls[c].reqId /\ pre.requests[r].status = "pending"

\* C32. Batch status is monotone: in every interleaving of sweep and approve
\* steps, a batch whose status is used, reserved or expired keeps its status
\* and its units in every step.  (SpecMixed.)
C32_BatchStatusMonotone ==
    [][\A i \in DOMAIN inventory :
          inventory[i].status # "available" => inventory'[i] = inventory[i]]_vars

\* C33. Sweep frame: every step in which a batch becomes expired changes
\* only batches that were available with expiryDate < now, and of them only
\* the status, to expired; it creates and deletes no batch, leaves every
\* reserved, used and already expired batch as it was, and changes no
\* request.  (SpecSeq.)
C33_SweepFrame ==
    [][(\E i \in DOMAIN inventory :
            inventory'[i].status = "expired" /\ inventory[i].status # "expired")
       => /\ requests' = requests
          /\ Len(inventory') = Len(inventory)
          /\ \A j \in DOMAIN inventory :
                inventory'[j] # inventory[j] =>
                    /\ inventory[j].status = "available"
                    /\ inventory[j].expiryDate < now
                    /\ inventory'[j] = [inventory[j] EXCEPT !.status = "expired"]]_vars

\* C33's case: a sweep has expired a batch while a consumed batch past its
\* expiry date and a request are in the database.
C33_Witness ==
    /\ \E i \in DOMAIN inventory : inventory[i].status = "expired"
    /\ \E j \in DOMAIN inventory :
          inventory[j].status = ConsumedStatus(variant) /\ inventory[j].expiryDate < now
    /\ Len(requests) > 0

\* Units in available batches of blood type bt.
AvailableUnitsOfType(inv, bt) ==
    SumUnits(inv, {i \in DOMAIN inv :
                      inv[i].bloodType = bt /\ inv[i].status = "available"})

\* C34. Expiry boundary agreement: in the inventory a sweep leaves when it
\* runs now, every batch still available is one the approve handler's
\* availability check counts at time now, a batch whose expiryDate equals now
\* included, so for every blood type the units in available batches are the
\* quantity an approve at time now can consume.  (SpecSeq.)
C34_ExpiryBoundaryAgreement ==
    LET after == Swept(inventory, now)
    IN  \A bt \in BloodTypes :
            /\ \A i \in DOMAIN after :
                  (after[i].bloodType = bt /\ after[i].status = "available")
                      => MatchAvailable(variant, after[i], bt, now)
            /\ AvailableUnitsOfType(after, bt) = TotalAvailable(variant, after, bt, now)

\* C35. Deleting a request leaves the inventory alone: every step that
\* removes a request, whatever its status, leaves every batch as it was; the
\* units a fulfilled request used stay used.  (SpecDelete.)
C35_DeleteLeavesInventory ==
    [][Len(requests') < Len(requests) => inventory' = inventory]_vars

\* C35's case: on the fulfilment server every request has been deleted while
\* a batch used by an approve is in the inventory.
C35_Witness ==
    /\ variant = "fulfilment"
    /\ NoneInFlight
    /\ requests = <<>>
    /\ \E i \in DOMAIN inventory : inventory[i].status = "used"

====
